---------------------------- MODULE Spec2Model ----------------------------
(***************************************************************************)
(* Model of the FLAME1 mixed-effects estimator of halfpipe/stats/flame1.py *)
(* (voxel_calc, flame1_contrast, t_ols_contrast, f_ols_contrast,           *)
(* flame_stage1_onvoxel, write_outputs) and of the voxel loop that drives  *)
(* it.                                                                     *)
(*                                                                         *)
(* Floating-point numbers are abstracted to the classes the code branches  *)
(* on: "nan", "ninf", "neg", "zero", "pos", "pinf".  The results of the    *)
(* numerical kernels (numpy.linalg.lstsq, the Brent minimiser) are not     *)
(* computed: each call site takes its result, or the LinAlgError it may    *)
(* raise, from an environment record `env` that the actions draw from      *)
(* bounded sets, so every outcome of the kernel is explored.               *)
(***************************************************************************)
EXTENDS Integers, Sequences, FiniteSets, TLC

(***************************************************************************)
(* Bounds of the model.                                                    *)
(***************************************************************************)
\* number of cells of the reference volume (voxel coordinates 1..NVox)
NVox == 2
\* largest number of subjects (rows of effect, variance and design)
MaxSubj == 3
\* largest number of design columns
MaxCols == 2
\* largest number of rows of a contrast matrix
MaxRows == 2
\* largest number of inputs a model lists
MaxInputs == 2
\* largest number of workflows the feature factory holds for one feature
MaxHier == 2
\* largest number of create calls on one factory
MaxCalls == 2
\* largest number of time points of a voxel's time series
MaxT == 5

(***************************************************************************)
(* Values.  Every scalar that ends in a record or a volume carries its     *)
(* Python type: float (a class), int, bool.                                *)
(***************************************************************************)
FloatClass == {"nan", "ninf", "neg", "zero", "pos", "pinf"}

PyFloat(c) == [t |-> "float", v |-> c]
PyInt(n) == [t |-> "int", v |-> n]
PyBool(b) == [t |-> "bool", v |-> b]

\* math.isnan
isnan(x) == x = "nan"

\* math.isfinite
isfinite(x) == x \in {"neg", "zero", "pos"}

\* math.isclose(x, 0) with the default tolerances (rel_tol = 1e-9,
\* abs_tol = 0.0): true only of a value equal to zero
isclose0(x) == x = "zero"

\* x < 0 (false of NaN)
lt0(x) == x \in {"ninf", "neg"}

\* np.sqrt on a float: NaN (and a warning) below zero
np_sqrt(x) ==
    CASE x \in {"nan", "ninf", "neg"} -> "nan"
      [] OTHER -> x

\* a / b in IEEE arithmetic with b = np.sqrt(..) >= 0 or NaN: numpy's
\* float64 division does not raise on a zero divisor
np_div(a, b) ==
    CASE a = "nan" \/ b = "nan" -> "nan"
      [] b = "zero" -> (CASE a = "zero" -> "nan"
                          [] a \in {"pos", "pinf"} -> "pinf"
                          [] OTHER -> "ninf")
      [] b = "pinf" -> IF a \in {"ninf", "pinf"} THEN "nan" ELSE "zero"
      [] OTHER -> a

\* np.square of the standard deviation (>= 0 or NaN)
np_square(x) == IF x = "ninf" THEN "pinf" ELSE IF x = "neg" THEN "pos" ELSE x

(***************************************************************************)
(* halfpipe/stats/miscmaths.py (not part of the sources at hand): the      *)
(* conversions of a t or F statistic to a z score, a monotonic and         *)
(* sign-preserving map; NaN in, or degrees of freedom <= 0, give NaN.      *)
(***************************************************************************)
t2z_convert(t, dof) ==
    IF isnan(t) \/ dof <= 0 THEN "nan" ELSE t

f2z_convert(f, dof1, dof2) ==
    IF isnan(f) \/ lt0(f) \/ dof1 <= 0 \/ dof2 <= 0 THEN "nan" ELSE f

(***************************************************************************)
(* Inputs of one voxel.  effect y: "nan" (missing), "inf" or one of two     *)
(* finite values "lo" < "hi"; variance s: a float class; design z: one row *)
(* per                                                                     *)
(* subject, named by the subject's index (its regressors are finite after  *)
(* np.nan_to_num and are not tracked), with ncols columns.                 *)
(***************************************************************************)
YVals == {"nan", "inf", "lo", "hi"}
SVals == {"nan", "neg", "zero", "pos", "pinf"}

\* np.isfinite of an effect
isfinite_y(v) == v \in {"lo", "hi"}

SeqsOf(S, n) == [1..n -> S]

\* the rows of a sequence kept by a boolean mask (numpy boolean indexing:
\* a new array, the kept rows in their order)
RECURSIVE Compress(_, _)
Compress(a, keep) ==
    IF Len(a) = 0 THEN <<>>
    ELSE LET rest == Compress(Tail(a), Tail(keep))
         IN  IF Head(keep) THEN <<Head(a)>> \o rest ELSE rest

\* halfpipe/stats/base.py listwise_deletion (not part of the sources at
\* hand): rows with a non-finite effect or variance are removed from the
\* three arrays together; arrays of different row counts cannot be
\* concatenated and raise ValueError.  The arrays returned are new arrays
\* (boolean indexing copies): fresh says so.
listwise_deletion(y, z, s) ==
    IF Len(y) # Len(z) \/ Len(y) # Len(s)
    THEN [exc |-> "ValueError"]
    ELSE LET available == [i \in 1..Len(y) |-> isfinite_y(y[i]) /\ isfinite(s[i])]
         IN  [exc |-> "none",
              y |-> Compress(y, available),
              z |-> Compress(z, available),
              s |-> Compress(s, available),
              fresh |-> TRUE]

\* halfpipe/stats/base.py demean (not part of the sources at hand): the
\* column means over the rows given are subtracted from each row: a
\* demeaned row is its row and the set of rows its mean was taken over
demean(z) ==
    [i \in 1..Len(z) |-> [row |-> z[i], mean_over |-> {z[j] : j \in 1..Len(z)}]]

\* mutant: no listwise deletion
flame1_prepare_data_keepall(y, z, s) ==
    IF Len(y) # Len(z) \/ Len(y) # Len(s) THEN [exc |-> "ValueError"]
    ELSE [exc |-> "none", y |-> y, z |-> demean(z), s |-> s, fresh |-> TRUE]

\* mutant: the design is demeaned before the rows are deleted
flame1_prepare_data_demeanfirst(y, z, s) ==
    LET d == listwise_deletion(y, demean(z), s)
    IN  d

\* mutant: when no row is to be deleted the caller's arrays are handed on
flame1_prepare_data_passthrough(y, z, s) ==
    LET d == listwise_deletion(y, z, s)
    IN  IF d.exc # "none" THEN d
        ELSE [d EXCEPT !.z = demean(d.z), !.fresh = Len(d.y) # Len(y)]

flame1_prepare_data(y, z, s) ==
    LET d == listwise_deletion(y, z, s)
    IN  IF d.exc # "none" THEN d
        ELSE [d EXCEPT !.z = demean(d.z)]

\* np.std(y): NaN of an empty array, 0 when all values are equal
np_std(y) ==
    IF Len(y) = 0 THEN "nan"
    ELSE IF \A i \in 1..Len(y) : y[i] = y[1] THEN "zero"
    ELSE "pos"

(***************************************************************************)
(* calcgam: the generalised least squares step.  np.linalg.lstsq raises    *)
(* LinAlgError when its SVD does not converge; gls says whether it does.   *)
(***************************************************************************)
calcgam(beta, nevs, gls) ==
    IF gls = "LinAlgError" THEN [exc |-> "LinAlgError"]
    ELSE [exc |-> "none", gam |-> [i \in 1..nevs |-> "gam"], ziUz |-> nevs]

\* mutant: the GLS step is not guarded by the try
marg_posterior_energy_uncaught(ex, nevs, gls) ==
    IF lt0(ex) \/ isclose0(ex) THEN [exc |-> "none", val |-> "1e32", gls_calls |-> 0]
    ELSE LET g == calcgam(ex, nevs, gls)
         IN  IF g.exc = "LinAlgError" THEN [exc |-> "LinAlgError", gls_calls |-> 1]
             ELSE [exc |-> "none", val |-> "energy", gls_calls |-> 1]

\* marg_posterior_energy at one candidate: ex = exp(x) is "zero" when exp
\* underflows; the sentinel 1e32 instead of the GLS step, or when it raises
\* (gls_calls counts the calls of calcgam)
marg_posterior_energy(ex, nevs, gls) ==
    IF lt0(ex) \/ isclose0(ex) THEN [exc |-> "none", val |-> "1e32", gls_calls |-> 0]
    ELSE LET g == calcgam(ex, nevs, gls)
         IN  IF g.exc = "LinAlgError"
             THEN [exc |-> "none", val |-> "1e32", gls_calls |-> 1]
             ELSE [exc |-> "none", val |-> "energy", gls_calls |-> 1]

\* solveforbeta: the minimiser evaluates the energy at its candidates (one
\* stands for them: env.cand) and reports res.x, of which only exp(res.x)
\* matters: "zero" (underflow), "nan", "pos" or "pinf" (overflow).
\* max(1e-10, exp(fu)) is 1e-10 ("floor") for a zero or NaN exponential.
\* mutant: exp(fu) is returned as it is
solveforbeta_nofloor(nevs, env) ==
    LET e == marg_posterior_energy(env.cand.ex, nevs, env.cand.gls)
    IN  IF e.exc # "none" THEN [exc |-> e.exc]
        ELSE [exc |-> "none", beta |-> env.expfu]

solveforbeta(nevs, env) ==
    LET e == marg_posterior_energy(env.cand.ex, nevs, env.cand.gls)
    IN  IF e.exc # "none" THEN [exc |-> e.exc]
        ELSE [exc |-> "none",
              beta |-> IF env.expfu \in {"zero", "nan"} THEN "floor" ELSE env.expfu]

\* weights = s + beta in calcgam, one class per row: beta is the floor
\* 1e-10, positive or +inf (or, unfloored, zero or NaN); "finite" is a sum
\* of a negative variance and a positive beta, of either sign
weights(s, beta) ==
    [i \in 1..Len(s) |->
        CASE s[i] = "nan" \/ beta = "nan" -> "nan"
          [] s[i] = "ninf" -> IF beta = "pinf" THEN "nan" ELSE "ninf"
          [] s[i] = "pinf" \/ beta = "pinf" -> "pinf"
          [] s[i] = "neg" -> IF beta = "zero" THEN "neg" ELSE "finite"
          [] s[i] = "zero" -> IF beta = "zero" THEN "zero" ELSE "pos"
          [] OTHER -> "pos"]

\* gam *= norm and ziUz /= np.square(norm): a NaN norm (the standard
\* deviation of no value) makes every entry of both NaN
scale_gam(gam, norm) == [i \in 1..Len(gam) |-> IF isnan(norm) THEN "nan" ELSE gam[i]]

scale_ziUz(ziUz, norm) == [n |-> ziUz, nan |-> isnan(norm) /\ ziUz > 0]

\* mutant: the assertion comes after the fit
flame_stage1_onvoxel_lateassert(y, z, s, nevs, env) ==
    LET norm == np_std(y)
        sn == [i \in 1..Len(s) |-> np_div(s[i], np_square(norm))]
        b == solveforbeta(nevs, env)
    IN  IF b.exc # "none" THEN [exc |-> b.exc]
        ELSE LET g == calcgam(b.beta, nevs, env.gls)
                 fit == [beta |-> b.beta, s |-> sn, final_gls |-> <<b.beta>>,
                         weights |-> weights(sn, b.beta)]
             IN  IF g.exc # "none" THEN [exc |-> g.exc, fit |-> fit]
                 ELSE IF \E i \in 1..Len(sn) : lt0(sn[i])
                 THEN [exc |-> "AssertionError"]
                 ELSE [exc |-> "none", mn |-> scale_gam(g.gam, norm),
                       inverse_covariance |-> scale_ziUz(g.ziUz, norm),
                       beta |-> b.beta, fit |-> fit]

\* (fit keeps, of the final GLS step: the beta solveforbeta returned, the
\* normalised variances, the beta of each calcgam call made after the
\* optimisation, and the weights that call inverts)
flame_stage1_onvoxel(y, z, s, nevs, env) ==
    LET norm == np_std(y)
        sn == [i \in 1..Len(s) |-> np_div(s[i], np_square(norm))]
    IN  IF \E i \in 1..Len(sn) : lt0(sn[i])
        THEN [exc |-> "AssertionError"]
        ELSE LET b == solveforbeta(nevs, env)
             IN  IF b.exc # "none" THEN [exc |-> b.exc]
                 ELSE LET g == calcgam(b.beta, nevs, env.gls)
                          fit == [beta |-> b.beta, s |-> sn,
                                  final_gls |-> <<b.beta>>,
                                  weights |-> weights(sn, b.beta)]
                      IN  IF g.exc # "none" THEN [exc |-> g.exc, fit |-> fit]
                          ELSE [exc |-> "none", mn |-> scale_gam(g.gam, norm),
                                inverse_covariance |-> scale_ziUz(g.ziUz, norm),
                                beta |-> b.beta, fit |-> fit]

(***************************************************************************)
(* Contrasts.  ce is the environment of one contrast evaluation: whether   *)
(* an lstsq call raises, and the classes of the products it yields from    *)
(* numbers; a product with a NaN estimate or a NaN matrix is NaN, and a    *)
(* product over no design column is the empty sum 0.0.                     *)
(***************************************************************************)
\* cope = float(tcontrast @ mn)
cope_of(mn, ce) ==
    IF Len(mn) = 0 THEN "zero"
    ELSE IF \E i \in 1..Len(mn) : mn[i] = "nan" THEN "nan"
    ELSE ce.cope

\* varcope = float(tcontrast @ lstsq(inverse_covariance, tcontrast.T)[0])
varcope_of(inverse_covariance, ce) ==
    IF inverse_covariance.n = 0 THEN "zero"
    ELSE IF inverse_covariance.nan THEN "nan"
    ELSE ce.varcope

\* f = float(mn.T @ fcontrast.T @ b @ mn / dof1)
f_of(mn, inverse_covariance, ce) ==
    IF Len(mn) = 0 THEN "zero"
    ELSE IF inverse_covariance.nan \/ \E i \in 1..Len(mn) : mn[i] = "nan" THEN "nan"
    ELSE ce.f

\* mutant: a zero varcope is not short-circuited
t_ols_contrast_divides(mn, inverse_covariance, dof, tcontrast, ce) ==
    IF ce.lstsq = "LinAlgError" THEN [exc |-> "LinAlgError"]
    ELSE LET varcope == varcope_of(inverse_covariance, ce)
             cope == cope_of(mn, ce)
             t == IF isnan(cope) \/ isnan(varcope) \/ lt0(varcope)
                  THEN "nan"
                  ELSE np_div(cope, np_sqrt(varcope))
             z == t2z_convert(t, dof)
         IN  [exc |-> "none", cope |-> cope, varcope |-> varcope, t |-> t, z |-> z]

t_ols_contrast(mn, inverse_covariance, dof, tcontrast, ce) ==
    IF ce.lstsq = "LinAlgError" THEN [exc |-> "LinAlgError"]
    ELSE LET varcope == varcope_of(inverse_covariance, ce)
             cope == cope_of(mn, ce)
             t == IF isnan(cope) \/ isnan(varcope) \/ isclose0(varcope) \/ lt0(varcope)
                  THEN "nan"
                  ELSE np_div(cope, np_sqrt(varcope))
             z == t2z_convert(t, dof)
         IN  [exc |-> "none", cope |-> cope, varcope |-> varcope, t |-> t, z |-> z]

f_ols_contrast(mn, inverse_covariance, dof1, dof2, fcontrast, ce) ==
    IF ce.lstsq = "LinAlgError" THEN [exc |-> "LinAlgError"]
    ELSE LET f == f_of(mn, inverse_covariance, ce)
             z == f2z_convert(f, dof1, dof2)
         IN  [exc |-> "none", f |-> f, z |-> z]

\* the value of a Python function that falls off its end
None == [None |-> TRUE]

\* mutant: every contrast with a row takes the t branch
is_t_contrast_any(n) == n >= 1

\* mutant: the mask only excludes NaN
record_mask_notnan(zz) == ~isnan(zz)

\* the mask of a record: math.isfinite of its z score
record_mask(zz) == isfinite(zz)

\* the two branches of the dispatch on the number of rows
is_t_contrast(n) == n = 1

is_f_contrast(n) == n > 1

\* mutant: the denominator degrees of freedom ignore the design columns
fdof2lower_npts(npts, nevs) == npts

\* the degrees of freedom of the two branches
tdoflower(npts, nevs) == npts - nevs

fdof2lower(npts, nevs) == npts - nevs

flame1_contrast(mn, inverse_covariance, npts, cmat, ce) ==
    LET nevs == Len(mn)
        n == cmat.n
    IN  IF is_t_contrast(n)
        THEN LET dof == tdoflower(npts, nevs)
                 r == t_ols_contrast(mn, inverse_covariance, dof, cmat, ce)
             IN  IF r.exc # "none" THEN [exc |-> r.exc]
                 ELSE [exc |-> "none",
                       r |-> [cope |-> PyFloat(r.cope), var_cope |-> PyFloat(r.varcope),
                              tdof |-> PyInt(dof), tstat |-> PyFloat(r.t),
                              zstat |-> PyFloat(r.z), mask |-> PyBool(record_mask(r.z))]]
        ELSE IF is_f_contrast(n)
        THEN LET fdof1 == n
                 dof2 == fdof2lower(npts, nevs)
                 r == f_ols_contrast(mn, inverse_covariance, fdof1, dof2, cmat, ce)
             IN  IF r.exc # "none" THEN [exc |-> r.exc]
                 ELSE [exc |-> "none",
                       r |-> [fstat |-> PyFloat(r.f), fdof1 |-> PyInt(fdof1),
                              fdof2 |-> PyInt(dof2), zstat |-> PyFloat(r.z),
                              mask |-> PyBool(record_mask(r.z))]]
        ELSE [exc |-> "none", r |-> None]

(***************************************************************************)
(* FLAME1.voxel_calc.  cmatdict is the ordered mapping of contrast names   *)
(* to matrices: a sequence of [name, n] with n the number of rows.  The    *)
(* result is an exception that escapes ("raise"), the skip value None      *)
(* ("skip"), or voxel_result ("result"): contrast name -> coordinate ->    *)
(* record, with a key only for the contrasts that were stored.             *)
(***************************************************************************)
CNames(cmatdict) == {cmatdict[i].name : i \in 1..Len(cmatdict)}

CMat(cmatdict, name) ==
    cmatdict[CHOOSE i \in 1..Len(cmatdict) : cmatdict[i].name = name]

\* mutant: the failure of stage 1 is not caught
stage1_uncaught(exc) == FALSE

\* except np.linalg.LinAlgError around flame_stage1_onvoxel: return None
stage1_caught(exc) == exc = "LinAlgError"

\* mutant: the failure of a contrast is not caught
contrast_uncaught(exc) == FALSE

\* except np.linalg.LinAlgError around flame1_contrast: continue
contrast_caught(exc) == exc = "LinAlgError"

\* mutant: break instead of continue, the loop ends at the first failure
stored_names_break(cmat_dict, r) ==
    {cmat_dict[i].name :
        i \in {j \in 1..Len(cmat_dict) :
                  \A h \in 1..j : r[cmat_dict[h].name].exc = "none"}}

\* the contrasts whose record the loop stores, given each evaluation's
\* outcome r[name]: every one that did not raise
stored_names(cmat_dict, r) ==
    {cmat_dict[i].name : i \in {j \in 1..Len(cmat_dict) : r[cmat_dict[j].name].exc = "none"}}

\* an array after the in-place division of flame_stage1_onvoxel (y /= norm,
\* s /= np.square(norm)): every element is its quotient by the divisor
InPlaceDiv(a, divisor) == [i \in 1..Len(a) |-> <<a[i], "/", divisor>>]

\* the arrays of the caller after voxel_calc.  z is rebound to the copy
\* np.nan_to_num makes before anything else; y and s are rebound to what
\* listwise_deletion returns, and flame_stage1_onvoxel divides these in
\* place before it asserts or fits; the contrast matrices are only read
voxel_calc_arrays(y, z, s, cmat_dict) ==
    LET d == flame1_prepare_data(y, z, s)
    IN  IF d.exc # "none" \/ d.fresh
        THEN [y |-> y, z |-> z, s |-> s, cmatdict |-> cmat_dict]
        ELSE [y |-> InPlaceDiv(y, np_std(y)), z |-> z,
              s |-> InPlaceDiv(s, np_square(np_std(y))), cmatdict |-> cmat_dict]

\* what flame_stage1_onvoxel did inside voxel_calc: not called when the
\* preparation of the data raised
voxel_calc_stage1(y, z, s, nevs, env) ==
    LET d == flame1_prepare_data(y, z, s)
    IN  IF d.exc # "none" THEN [exc |-> "not called"]
        ELSE flame_stage1_onvoxel(d.y, d.z, d.s, nevs, env)

\* mutant: every record is stored under the first coordinate
voxel_calc_fixedcoord(coordinate, y, z, s, nevs, cmat_dict, env) ==
    LET d == flame1_prepare_data(y, z, s)
    IN  IF d.exc # "none" THEN [kind |-> "raise", exc |-> d.exc]
        ELSE
        LET npts == Len(d.y)
            st == flame_stage1_onvoxel(d.y, d.z, d.s, nevs, env)
        IN  IF st.exc # "none"
            THEN IF stage1_caught(st.exc) THEN [kind |-> "skip"]
                 ELSE [kind |-> "raise", exc |-> st.exc]
            ELSE
            LET r == [name \in CNames(cmat_dict) |->
                        flame1_contrast(st.mn, st.inverse_covariance, npts,
                                        CMat(cmat_dict, name), env.con[name])]
            IN  [kind |-> "result",
                 voxel_result |-> [name \in stored_names(cmat_dict, r) |->
                                       (1 :> r[name].r)]]

voxel_calc(coordinate, y, z, s, nevs, cmat_dict, env) ==
    LET d == flame1_prepare_data(y, z, s)
    IN  IF d.exc # "none" THEN [kind |-> "raise", exc |-> d.exc]
        ELSE
        LET npts == Len(d.y)
            st == flame_stage1_onvoxel(d.y, d.z, d.s, nevs, env)
        IN  IF st.exc # "none"
            THEN IF stage1_caught(st.exc) THEN [kind |-> "skip"]
                 ELSE [kind |-> "raise", exc |-> st.exc]
            ELSE
            LET r == [name \in CNames(cmat_dict) |->
                        flame1_contrast(st.mn, st.inverse_covariance, npts,
                                        CMat(cmat_dict, name), env.con[name])]
                escaped == {i \in 1..Len(cmat_dict) :
                              /\ r[cmat_dict[i].name].exc # "none"
                              /\ ~contrast_caught(r[cmat_dict[i].name].exc)}
            IN  IF escaped # {}
                THEN [kind |-> "raise",
                      exc |-> r[cmat_dict[CHOOSE i \in escaped :
                                            \A j \in escaped : i <= j].name].exc]
                ELSE [kind |-> "result",
                      voxel_result |-> [name \in stored_names(cmat_dict, r) |->
                                            (coordinate :> r[name].r)]]

(***************************************************************************)
(* FLAME1.write_outputs.  voxel_results maps a contrast name to its table  *)
(* coordinate -> record (a defaultdict: a name without a key reads as the  *)
(* empty table).  The reference volume has the cells 1..NVox.              *)
(***************************************************************************)
\* mutant: fdof1 and fdof2 have groups of their own
outputs_withfdof ==
    <<"copes", "var_copes", "tdof", "zstats", "tstats", "fstats", "masks",
      "fdof1s", "fdof2s">>

outputs == <<"copes", "var_copes", "tdof", "zstats", "tstats", "fstats", "masks">>

\* mutant: tdof is pluralised like every other statistic
OutputName_plural(map_name) ==
    CASE map_name = "cope" -> "copes"
      [] map_name = "var_cope" -> "var_copes"
      [] map_name = "tdof" -> "tdofs"
      [] map_name = "tstat" -> "tstats"
      [] map_name = "zstat" -> "zstats"
      [] map_name = "fstat" -> "fstats"
      [] map_name = "mask" -> "masks"
      [] map_name = "fdof1" -> "fdof1s"
      [] map_name = "fdof2" -> "fdof2s"
      [] OTHER -> "others"

\* mutant: the t statistic goes to the group of the z statistic
OutputName_merged(map_name) ==
    IF map_name \in {"tdof"} THEN map_name
    ELSE CASE map_name = "cope" -> "copes"
           [] map_name = "var_cope" -> "var_copes"
           [] map_name = "tstat" -> "zstats"
           [] map_name = "zstat" -> "zstats"
           [] map_name = "fstat" -> "fstats"
           [] map_name = "mask" -> "masks"
           [] map_name = "fdof1" -> "fdof1s"
           [] map_name = "fdof2" -> "fdof2s"
           [] OTHER -> "others"

\* f"{map_name}s", and the bare name for tdof
OutputName(map_name) ==
    IF map_name \in {"tdof"} THEN map_name
    ELSE CASE map_name = "cope" -> "copes"
           [] map_name = "var_cope" -> "var_copes"
           [] map_name = "tstat" -> "tstats"
           [] map_name = "zstat" -> "zstats"
           [] map_name = "fstat" -> "fstats"
           [] map_name = "mask" -> "masks"
           [] map_name = "fdof1" -> "fdof1s"
           [] map_name = "fdof2" -> "fdof2s"
           [] OTHER -> "others"

\* mutant: every contrast reads the table of the first contrast name
ContrastResults_first(voxel_results, contrast_name) ==
    IF "c1" \in DOMAIN voxel_results THEN voxel_results["c1"] ELSE <<>>

ContrastResults(voxel_results, contrast_name) ==
    IF contrast_name \in DOMAIN voxel_results
    THEN voxel_results[contrast_name] ELSE <<>>

\* the row labels of pd.DataFrame.from_records(contrast_results): the keys
\* of the records
RecordIndex(contrast_results) ==
    UNION {DOMAIN contrast_results[c] : c \in DOMAIN contrast_results}

\* mutant: the mask and zstat rows are not ensured
RdfIndex_unensured(contrast_results) == RecordIndex(contrast_results)

\* the row labels after the two rows that are ensured
RdfIndex(contrast_results) ==
    RecordIndex(contrast_results) \cup {"mask", "zstat"}

\* the value of row map_name in the column of coordinate c: the record's
\* value, NaN where the record has no such key; an appended mask row holds
\* False and an appended zstat row NaN
RdfValue(contrast_results, map_name, c) ==
    IF map_name \in DOMAIN contrast_results[c] THEN contrast_results[c][map_name]
    ELSE IF map_name = "mask" /\ "mask" \notin RecordIndex(contrast_results)
    THEN PyBool(FALSE)
    ELSE PyFloat("nan")

\* mutant: every array starts from zeros
FillArr_zeros(contrast_results, map_name) ==
    [c \in 1..NVox |->
        IF c \in DOMAIN contrast_results
        THEN RdfValue(contrast_results, map_name, c)
        ELSE IF map_name = "mask" THEN PyBool(FALSE) ELSE PyFloat("zero")]

\* the dense array of one row: the default, overwritten at the coordinates
FillArr(contrast_results, map_name) ==
    [c \in 1..NVox |->
        IF c \in DOMAIN contrast_results
        THEN RdfValue(contrast_results, map_name, c)
        ELSE IF map_name = "mask" THEN PyBool(FALSE) ELSE PyFloat("nan")]

\* the file written for row map_name of the contrast at 0-based position
\* i - 1: its name, the dtype of the array and of the header, its data
Fname(map_name, i, contrast_name) == <<map_name, i, contrast_name>>

\* mutant: the header keeps the dtype of the array
Img_arrdtype(contrast_results, map_name) ==
    [arr_dtype |-> IF map_name = "mask" THEN "bool" ELSE "float64",
     data_dtype |-> IF map_name = "mask" THEN "bool" ELSE "float64",
     data |-> FillArr(contrast_results, map_name)]

\* arr is np.zeros(shape, dtype=bool) for mask and np.full(shape, nan)
\* otherwise; img.header.set_data_dtype(np.float64) for every image
Img(contrast_results, map_name) ==
    [arr_dtype |-> IF map_name = "mask" THEN "bool" ELSE "float64",
     data_dtype |-> "float64",
     data |-> FillArr(contrast_results, map_name)]

write_outputs(cmat_dict, voxel_results) ==
    LET N == Len(cmat_dict)
        cr(i) == ContrastResults(voxel_results, cmat_dict[i].name)
        tags == {<<m, i>> : m \in {"cope", "var_cope", "tdof", "tstat", "zstat",
                                    "mask", "fstat", "fdof1", "fdof2", "None"},
                            i \in 1..N}
        written == {tg \in tags : tg[1] \in RdfIndex(cr(tg[2]))}
        keys == {outputs[j] : j \in 1..Len(outputs)}
        \* line 242, per row map_name of contrast number contrast: the group
        \* output_name and the list position i it assigns
        log == {[output_name |-> OutputName(tg[1]), i |-> tg[2],
                 map_name |-> tg[1], contrast |-> tg[2]] :
                    tg \in {w \in written : OutputName(w[1]) \in keys}}
        slot(output_name, i) ==
            LET ms == {a.map_name : a \in {b \in log : b.output_name = output_name
                                                         /\ b.i = i}}
            IN  IF ms = {} THEN PyBool(FALSE)
                ELSE [t |-> "str",
                      v |-> Fname(CHOOSE m \in ms : TRUE, i, cmat_dict[i].name)]
    IN  [output_files |-> [o \in keys |-> [i \in 1..N |-> slot(o, i)]],
         assigned |-> log,
         files |->
            [f \in {Fname(tg[1], tg[2], cmat_dict[tg[2]].name) : tg \in written} |->
                Img(cr(f[2]), f[1])]]

(***************************************************************************)
(* Scaling.  When every effect of a voxel is multiplied by k > 0 and every *)
(* variance by k^2, a quantity of the computation that is multiplied by    *)
(* k^d has the degree d: the effects enter with degree 1, the variances    *)
(* with degree 2, and a degree of 0 is a quantity the scaling leaves as it *)
(* was.  The degrees are those of the real-number expressions the code     *)
(* evaluates.                                                              *)
(***************************************************************************)
\* the GLS fit (solveforbeta, then calcgam) on data of the degrees ye and
\* se: weights = s + beta and iU = diag(1 / weights) scale as the variances
\* do, gam = lstsq(z.T iU z, z.T iU y) as the effects and ziUz = z.T iU z
\* inversely to the variances; data that the scaling leaves as they were
\* (ye = se = 0) give the same beta, floored or not, and the same fit
gls_degrees(ye, se) ==
    IF ye = 0 /\ se = 0 THEN [same |-> TRUE, gam |-> 0, ziUz |-> 0]
    ELSE [same |-> FALSE, gam |-> ye, ziUz |-> 0 - se]

\* mutant: the matrix of the normal equations is returned as fitted
flame_stage1_degrees_noundo(ye, se) ==
    LET norm == ye
        yn == ye - norm
        sn == se - 2 * norm
        g == gls_degrees(yn, sn)
    IN  [y |-> yn, s |-> sn, same |-> g.same,
         mn |-> g.gam + norm, inverse_covariance |-> g.ziUz]

\* flame_stage1_onvoxel: norm = np.std(y) has the degree of y; y /= norm,
\* s /= np.square(norm), the fit, gam *= norm, ziUz /= np.square(norm)
flame_stage1_degrees(ye, se) ==
    LET norm == ye
        yn == ye - norm
        sn == se - 2 * norm
        g == gls_degrees(yn, sn)
    IN  [y |-> yn, s |-> sn, same |-> g.same,
         mn |-> g.gam + norm, inverse_covariance |-> g.ziUz - 2 * norm]

\* t_ols_contrast: cope = tcontrast @ mn, varcope = tcontrast @
\* lstsq(inverse_covariance, tcontrast.T), t = cope / sqrt(varcope); t2 is
\* the degree of the square of t; z = t2z_convert(t, dof) and
\* mask = isfinite(z) are functions of t and of the row counts alone
t_degrees(mn, inverse_covariance) ==
    [cope |-> mn, varcope |-> 0 - inverse_covariance,
     t2 |-> 2 * mn + inverse_covariance]

\* f_ols_contrast: f = mn.T @ fcontrast.T @ lstsq(a, fcontrast) @ mn / dof1
\* with a = fcontrast @ lstsq(inverse_covariance, fcontrast.T)
f_degrees(mn, inverse_covariance) == [f |-> 2 * mn + inverse_covariance]

\* the degrees of what voxel_calc computes from effects of degree ye and
\* variances of degree se (listwise_deletion and demean scale no value)
voxel_calc_degrees(ye, se) ==
    LET st == flame_stage1_degrees(ye, se)
    IN  [stage1 |-> st,
         t |-> t_degrees(st.mn, st.inverse_covariance),
         f |-> f_degrees(st.mn, st.inverse_covariance)]

(***************************************************************************)
(* State of one model-fit run.                                             *)
(***************************************************************************)
VARIABLES
    cmatdict,       \* the ordered contrast mapping: sequence of [name, n]
    nevs,           \* number of columns of the shared design matrix
    z,              \* the rows of the shared design matrix (subject indices)
    nvox,           \* number of voxel coordinates supplied: cells 1..nvox
    pc,             \* "fit", "done" (outputs written) or "raised" (run failed)
    k,              \* the next voxel of the loop
    call,           \* the last call of the function under study, its result
    status,         \* per coordinate: "pending", or how voxel_calc ended
    voxel_results,  \* contrast name -> coordinate -> record
    output_files,   \* the mapping write_outputs returns
    files,          \* the volumes write_outputs saved, by file name
    inputs,         \* per coordinate: the voxel's data, where fixed beforehand
    assigned,       \* the slot assignments write_outputs made, in its log
    \* ModelFactory
    models,         \* spec.models: sequence of [name, inputs]
    features,       \* feature name -> the hierarchies the feature factory holds
    wfs,            \* self.wfs: model name -> sequence of hierarchies
    nodes,          \* the nodes of the workflow models_wf
    connections,    \* the connections made in models_wf
    created,        \* the last create call: its model, the state before, its end
    calls,          \* number of create calls so far
    \* compute_reho, tie adjustment of one voxel's column
    n_t,            \* number of time points
    ties,           \* the tie flags: ties[j] for the 0-based position j - 1
    tieloc,         \* positions of the ties and the sentinel (0-based values)
    tiecount,       \* index into tieloc (0-based)
    tiestart,       \* start of the run being processed
    ntied,          \* number of tied ranks of the run being processed
    runs,           \* the rank slices averaged so far: <<tiestart, ntied>>
    rpc             \* "outer", "inner", "update", "done" or "IndexError"

factoryVars == <<models, features, wfs, nodes, connections, created, calls>>

rehoVars == <<n_t, ties, tieloc, tiecount, tiestart, ntied, runs, rpc>>

fitVars == <<cmatdict, nevs, z, nvox, pc, k, call, status, voxel_results,
             output_files, files, inputs, assigned>>

vars == <<fitVars, factoryVars, rehoVars>>

\* no model factory is set up
FactoryIdle ==
    /\ models = <<>>
    /\ features = <<>>
    /\ wfs = <<>>
    /\ nodes = {}
    /\ connections = {}
    /\ created = [op |-> "none"]
    /\ calls = 0

\* no tie adjustment is running
RehoIdle ==
    /\ n_t = 0
    /\ ties = <<>>
    /\ tieloc = <<>>
    /\ tiecount = 0
    /\ tiestart = 0
    /\ ntied = 0
    /\ runs = <<>>
    /\ rpc = "idle"

\* no model fit is running
FitIdle ==
    /\ cmatdict = <<>>
    /\ nevs = 0
    /\ z = <<>>
    /\ nvox = 0
    /\ pc = "idle"
    /\ k = 1
    /\ call = [op |-> "none"]
    /\ status = [c \in 1..NVox |-> "pending"]
    /\ voxel_results = <<>>
    /\ output_files = <<>>
    /\ files = <<>>
    /\ inputs = <<>>
    /\ assigned = {}

ContrastNames == <<"c1", "c2">>

\* the contrast mappings: a prefix of the names, each with 1..MaxRows rows
CMatDicts ==
    UNION {{[i \in 1..len |-> [name |-> ContrastNames[i], n |-> rows[i]]] :
                rows \in [1..len -> 1..MaxRows]} : len \in 0..Len(ContrastNames)}

Design(nsubj) == [i \in 1..nsubj |-> i]

(***************************************************************************)
(* Environments: what the numerical kernels do during one voxel_calc.      *)
(* Stage 1: the energy at a candidate [exp(x), its GLS step], exp(res.x)   *)
(* and the final GLS step.  Each contrast: whether lstsq raises, and the   *)
(* classes of cope and varcope (one row) or of f (more rows).              *)
(***************************************************************************)
ConOk(n, cope, varcope, f) ==
    IF n = 1 THEN [lstsq |-> "ok", cope |-> cope, varcope |-> varcope, f |-> "nan"]
    ELSE [lstsq |-> "ok", cope |-> "nan", varcope |-> "nan", f |-> f]

LstsqRaises == [lstsq |-> "LinAlgError", cope |-> "nan", varcope |-> "nan", f |-> "nan"]

\* every kernel converges and every statistic is finite and positive
EnvOk(cmat_dict) ==
    [cand |-> [ex |-> "pos", gls |-> "ok"], expfu |-> "pos", gls |-> "ok",
     con |-> [name \in CNames(cmat_dict) |->
                ConOk(CMat(cmat_dict, name).n, "pos", "pos", "pos")]]

\* one contrast's evaluation replaced
EnvsWithCon(cmat_dict, ces) ==
    {[EnvOk(cmat_dict) EXCEPT !.con[name] = ce] :
        name \in CNames(cmat_dict), ce \in ces}

\* the GLS step raises at a candidate, the candidate is rejected (exp(x)
\* underflows), the minimiser ends at an overflowing or NaN exp(res.x),
\* the final GLS step raises
Stage1Envs(cmat_dict) ==
    {[EnvOk(cmat_dict) EXCEPT !.cand.gls = "LinAlgError"],
     [EnvOk(cmat_dict) EXCEPT !.cand.ex = "zero", !.expfu = "zero"],
     [EnvOk(cmat_dict) EXCEPT !.expfu = "pinf"],
     [EnvOk(cmat_dict) EXCEPT !.expfu = "nan", !.gls = "LinAlgError"],
     [EnvOk(cmat_dict) EXCEPT !.cand.gls = "LinAlgError", !.gls = "LinAlgError"]}

\* the inputs of a voxel over a design of nsubj rows: aligned effect and
\* variance with rows out of `rows` (pairs <<effect, variance>>), or an
\* effect or variance one row short
AlignedInputs(nsubj, rows) ==
    {[y |-> [i \in 1..nsubj |-> r[i][1]], s |-> [i \in 1..nsubj |-> r[i][2]]] :
        r \in SeqsOf(rows, nsubj)}

ShortInputs(nsubj) ==
    IF nsubj = 0 THEN {}
    ELSE {[y |-> [i \in 1..(nsubj - 1) |-> "lo"], s |-> [i \in 1..nsubj |-> "pos"]],
          [y |-> [i \in 1..nsubj |-> "lo"], s |-> [i \in 1..(nsubj - 1) |-> "pos"]]}

(***************************************************************************)
(* The voxel loop (halfpipe/stats/fit.py, not part of the sources at       *)
(* hand): voxel_calc on each coordinate; an exception fails the run, None  *)
(* is skipped, and a result is merged into the per-contrast tables.        *)
(***************************************************************************)
Merge(tables, res) ==
    [name \in DOMAIN tables \cup DOMAIN res |->
        IF name \notin DOMAIN res THEN tables[name]
        ELSE IF name \notin DOMAIN tables THEN res[name]
        ELSE [c \in DOMAIN tables[name] \cup DOMAIN res[name] |->
                IF c \in DOMAIN res[name] THEN res[name][c] ELSE tables[name][c]]]

\* voxel_calc on coordinate c with the data and kernel outcomes of case,
\* and the merge of what it returns; k counts the voxels done.  call keeps
\* the arguments, the data flame1_prepare_data handed on (prepared), the
\* caller's arrays after the call (after), what stage 1 did (stage1), the degrees of its quantities
\* under a scaling of the effects by k and of the variances by k^2
\* (degrees) and the result.
FitAt(c, case) ==
    LET inp == case[1]
        env == case[2]
        res == voxel_calc(c, inp.y, z, inp.s, nevs, cmatdict, env)
    IN  /\ call' = [op |-> "voxel_calc", coordinate |-> c, y |-> inp.y,
                    s |-> inp.s, env |-> env,
                    prepared |-> flame1_prepare_data(inp.y, z, inp.s),
                    after |-> voxel_calc_arrays(inp.y, z, inp.s, cmatdict),
                    stage1 |-> voxel_calc_stage1(inp.y, z, inp.s, nevs, env),
                    degrees |-> voxel_calc_degrees(1, 2),
                    res |-> res]
        /\ status' = [status EXCEPT ![c] = res.kind]
        /\ pc' = IF res.kind = "raise" THEN "raised" ELSE "fit"
        /\ k' = IF res.kind = "raise" THEN k ELSE k + 1
        /\ voxel_results' = IF res.kind = "result"
                            THEN Merge(voxel_results, res.voxel_result)
                            ELSE voxel_results
        /\ UNCHANGED <<cmatdict, nevs, z, nvox, output_files, files, inputs, assigned,
                   factoryVars, rehoVars>>

\* the loop in the order of the coordinates
Fit(cases) ==
    /\ pc = "fit"
    /\ k <= nvox
    /\ \E case \in cases : FitAt(k, case)

\* the voxels handed out in any order: any coordinate not yet done
FitAny ==
    /\ pc = "fit"
    /\ \E c \in 1..nvox :
          /\ status[c] = "pending"
          /\ FitAt(c, inputs[c])

WriteOutputs ==
    /\ pc = "fit"
    /\ k > nvox
    /\ LET w == write_outputs(cmatdict, voxel_results)
       IN  /\ output_files' = w.output_files
           /\ files' = w.files
           /\ assigned' = w.assigned
    /\ pc' = "done"
    /\ UNCHANGED <<cmatdict, nevs, z, nvox, k, call, status, voxel_results, inputs,
                   factoryVars, rehoVars>>

InitRun(nvoxs, nsubjs) ==
    /\ cmatdict \in CMatDicts
    /\ nevs \in 0..MaxCols
    /\ z \in {Design(n) : n \in nsubjs}
    /\ nvox \in nvoxs
    /\ pc = "fit"
    /\ k = 1
    /\ call = [op |-> "none"]
    /\ status = [c \in 1..NVox |-> "pending"]
    /\ voxel_results = <<>>
    /\ output_files = <<>>
    /\ files = <<>>
    /\ assigned = {}
    /\ FactoryIdle
    /\ RehoIdle

\* a run whose voxels draw their data when they are fitted
InitDrawn(nvoxs, nsubjs) ==
    /\ InitRun(nvoxs, nsubjs)
    /\ inputs = <<>>

(***************************************************************************)
(* Spec: a run over up to NVox voxels of MaxSubj subjects.  A voxel's      *)
(* input is the plain one (finite effects, positive variances) or has a    *)
(* first row with a missing effect or a negative variance, or is short;    *)
(* its environment is the converging one, or one stage-1 or contrast       *)
(* outcome differs.                                                        *)
(***************************************************************************)
PlainInput(nsubj) ==
    [y |-> [i \in 1..nsubj |-> IF i = 1 THEN "lo" ELSE "hi"],
     s |-> [i \in 1..nsubj |-> "pos"]]

RunInputs ==
    {PlainInput(Len(z))}
    \cup {[PlainInput(Len(z)) EXCEPT !.y[1] = "nan"],
          [PlainInput(Len(z)) EXCEPT !.s[1] = "neg"]}
    \cup {i \in ShortInputs(Len(z)) : Len(i.y) < Len(z)}

RunEnvs ==
    {EnvOk(cmatdict), [EnvOk(cmatdict) EXCEPT !.gls = "LinAlgError"]}
    \cup EnvsWithCon(cmatdict, {LstsqRaises, ConOk(1, "pos", "zero", "nan"),
                                ConOk(MaxRows, "nan", "nan", "pinf")})

RunCases ==
    {<<PlainInput(Len(z)), env>> : env \in RunEnvs}
    \cup {<<inp, EnvOk(cmatdict)>> : inp \in RunInputs}

FitVoxel == Fit(RunCases)

Init == InitDrawn(0..NVox, {MaxSubj})

Next == FitVoxel \/ WriteOutputs

Spec == Init /\ [][Next]_vars

(***************************************************************************)
(* SpecVoxel: voxel_calc on one voxel, with every input of up to MaxSubj   *)
(* subjects whose rows come out of VoxelRows under the converging          *)
(* environment, those whose rows come out of FailRows under a failing      *)
(* final GLS step, those whose rows come out of FloorRows under a          *)
(* minimiser that ends where exp underflows, and the plain input under     *)
(* every stage-1 and contrast outcome.                                     *)
(***************************************************************************)
VoxelRows ==
    {<<"lo", "pos">>, <<"hi", "zero">>, <<"nan", "pos">>, <<"hi", "nan">>,
     <<"lo", "neg">>, <<"nan", "neg">>, <<"inf", "pos">>, <<"hi", "pinf">>}

FailRows == {<<"lo", "pos">>, <<"hi", "zero">>, <<"lo", "neg">>, <<"nan", "pos">>}

FloorRows == {<<"lo", "pos">>, <<"hi", "zero">>}

VoxelInputs == AlignedInputs(Len(z), VoxelRows) \cup ShortInputs(Len(z))

VoxelEnvs ==
    {EnvOk(cmatdict)} \cup Stage1Envs(cmatdict)
    \cup EnvsWithCon(cmatdict, {LstsqRaises})

VoxelCases ==
    (VoxelInputs \X {EnvOk(cmatdict)})
    \cup (AlignedInputs(Len(z), FailRows) \X {[EnvOk(cmatdict) EXCEPT !.gls = "LinAlgError"]})
    \cup (AlignedInputs(Len(z), FloorRows)
            \X {[EnvOk(cmatdict) EXCEPT !.cand.ex = "zero", !.expfu = "zero"]})
    \cup ({PlainInput(Len(z))} \X VoxelEnvs)

FitOne == Fit(VoxelCases)

InitVoxel == InitDrawn({1}, 0..MaxSubj)

NextVoxel == FitOne

SpecVoxel == InitVoxel /\ [][NextVoxel]_vars

(***************************************************************************)
(* SpecContrast: flame1_contrast as a function of its arguments: an        *)
(* estimate of ncols columns out of npts observations, a contrast of n     *)
(* rows, and every class of cope, varcope and f.                           *)
(***************************************************************************)
ContrastArgs ==
    {[op |-> "args", nevs |-> ne, npts |-> np, n |-> n, ce |-> ce] :
        ne \in 0..MaxCols, np \in 0..MaxSubj, n \in 0..MaxRows,
        ce \in {LstsqRaises}
               \cup {ConOk(1, c, v, "nan") : c \in FloatClass, v \in FloatClass}
               \cup {ConOk(MaxRows, "nan", "nan", f) : f \in FloatClass}}

InitContrast ==
    /\ call \in {a \in ContrastArgs :
                    \/ a.ce = LstsqRaises
                    \/ a.n = 1 /\ a.ce.f = "nan"
                    \/ a.n > 1 /\ a.ce.cope = "nan" /\ a.ce.varcope = "nan"}
    /\ cmatdict = <<>>
    /\ nevs = 0
    /\ z = <<>>
    /\ nvox = 0
    /\ pc = "call"
    /\ k = 1
    /\ status = [c \in 1..NVox |-> "pending"]
    /\ voxel_results = <<>>
    /\ output_files = <<>>
    /\ files = <<>>
    /\ assigned = {}
    /\ FactoryIdle
    /\ RehoIdle
    /\ inputs = <<>>

CallContrast ==
    /\ pc = "call"
    /\ call.op = "args"
    /\ call' = [op |-> "flame1_contrast", nevs |-> call.nevs, npts |-> call.npts,
                n |-> call.n, ce |-> call.ce,
                res |-> flame1_contrast([i \in 1..call.nevs |-> "gam"],
                                        [n |-> call.nevs, nan |-> FALSE],
                                        call.npts, [name |-> "c1", n |-> call.n],
                                        call.ce)]
    /\ UNCHANGED <<cmatdict, nevs, z, nvox, pc, k, status, voxel_results,
                   output_files, files, inputs, assigned,
                   factoryVars, rehoVars>>

NextContrast == CallContrast

SpecContrast == InitContrast /\ [][NextContrast]_vars

(***************************************************************************)
(* SpecOrder: a run over NVox voxels whose data and kernel outcomes are    *)
(* fixed beforehand and which are fitted in any order, as by a pool of     *)
(* workers whose results the owner of the tables merges as they arrive.    *)
(* A voxel is the plain one, has a missing effect, fails its final GLS     *)
(* step, or fails or degenerates its first contrast.                       *)
(***************************************************************************)
OrderCases ==
    {<<PlainInput(Len(z)), EnvOk(cmatdict)>>,
     <<[PlainInput(Len(z)) EXCEPT !.y[1] = "nan"], EnvOk(cmatdict)>>,
     <<PlainInput(Len(z)), [EnvOk(cmatdict) EXCEPT !.gls = "LinAlgError"]>>}
    \cup {<<PlainInput(Len(z)), [EnvOk(cmatdict) EXCEPT !.con["c1"] = ce]>> :
            ce \in IF cmatdict = <<>> THEN {}
                   ELSE {LstsqRaises, ConOk(cmatdict[1].n, "neg", "pos", "pinf")}}

InitOrder ==
    /\ InitRun({NVox}, {MaxSubj})
    /\ inputs \in [1..nvox -> OrderCases]

NextOrder == FitAny \/ WriteOutputs

SpecOrder == InitOrder /\ [][NextOrder]_vars

(***************************************************************************)
(* SpecEnergy: marg_posterior_energy at one candidate, as the minimiser    *)
(* of solveforbeta calls it, for data of npts rows and nevs columns:       *)
(* every class of exp(x), a GLS step that converges or raises, and every   *)
(* exp(res.x) the minimiser may end at.                                    *)
(***************************************************************************)
EnergyArgs ==
    {[op |-> "args", ex |-> ex, nevs |-> ne, npts |-> np, gls |-> g, expfu |-> fu] :
        ex \in FloatClass, ne \in 0..MaxCols, np \in 0..MaxSubj,
        g \in {"ok", "LinAlgError"}, fu \in {"zero", "nan", "pos", "pinf"}}

InitEnergy ==
    /\ call \in EnergyArgs
    /\ cmatdict = <<>>
    /\ nevs = 0
    /\ z = <<>>
    /\ nvox = 0
    /\ pc = "call"
    /\ k = 1
    /\ status = [c \in 1..NVox |-> "pending"]
    /\ voxel_results = <<>>
    /\ output_files = <<>>
    /\ files = <<>>
    /\ assigned = {}
    /\ FactoryIdle
    /\ RehoIdle
    /\ inputs = <<>>

\* the energy function called on the candidate
CallEnergy ==
    /\ pc = "call"
    /\ call.op = "args"
    /\ call' = [op |-> "marg_posterior_energy", ex |-> call.ex, nevs |-> call.nevs,
                npts |-> call.npts, gls |-> call.gls,
                res |-> marg_posterior_energy(call.ex, call.nevs, call.gls)]
    /\ UNCHANGED <<cmatdict, nevs, z, nvox, pc, k, status, voxel_results,
                   output_files, files, inputs, assigned,
                   factoryVars, rehoVars>>

\* solveforbeta whose minimiser evaluates the candidate and ends at expfu
CallSolveforbeta ==
    /\ pc = "call"
    /\ call.op = "args"
    /\ call' = [op |-> "solveforbeta", ex |-> call.ex, nevs |-> call.nevs,
                npts |-> call.npts, gls |-> call.gls, expfu |-> call.expfu,
                res |-> solveforbeta(call.nevs,
                                     [cand |-> [ex |-> call.ex, gls |-> call.gls],
                                      expfu |-> call.expfu])]
    /\ UNCHANGED <<cmatdict, nevs, z, nvox, pc, k, status, voxel_results,
                   output_files, files, inputs, assigned,
                   factoryVars, rehoVars>>

NextEnergy == CallEnergy \/ CallSolveforbeta

SpecEnergy == InitEnergy /\ [][NextEnergy]_vars

(***************************************************************************)
(* SpecZeroRows: voxel_calc on one voxel whose contrast matrices have any  *)
(* number of rows from zero to MaxRows, with the plain input under every   *)
(* stage-1 and contrast outcome.                                           *)
(***************************************************************************)
CMatDicts0 ==
    UNION {{[i \in 1..len |-> [name |-> ContrastNames[i], n |-> rows[i]]] :
                rows \in [1..len -> 0..MaxRows]} : len \in 0..Len(ContrastNames)}

InitZeroRows ==
    /\ cmatdict \in CMatDicts0
    /\ nevs \in 0..MaxCols
    /\ z \in {Design(n) : n \in 1..MaxSubj}
    /\ nvox = 1
    /\ pc = "fit"
    /\ k = 1
    /\ call = [op |-> "none"]
    /\ status = [c \in 1..NVox |-> "pending"]
    /\ voxel_results = <<>>
    /\ output_files = <<>>
    /\ files = <<>>
    /\ assigned = {}
    /\ FactoryIdle
    /\ RehoIdle
    /\ inputs = <<>>

FitZeroRows == Fit({PlainInput(Len(z))} \X VoxelEnvs)

NextZeroRows == FitZeroRows

SpecZeroRows == InitZeroRows /\ [][NextZeroRows]_vars

(***************************************************************************)
(* ModelFactory (halfpipe/workflow/model/factory.py).  A hierarchy is the  *)
(* sequence of workflows from the top to the one that holds a node.  The   *)
(* base class Factory and the feature factory are not part of the sources  *)
(* at hand: _get_hierarchy("models_wf") is taken to return the hierarchy   *)
(* that ends in the workflow models_wf, and feature_factory.get(name) the  *)
(* list of hierarchies held under name (none for a name it does not hold), *)
(* which is how create uses them.                                          *)
(***************************************************************************)
\* ModelFactory.has
has(name, ms) == \E i \in 1..Len(ms) : ms[i].name = name

feature_factory_has(name, fs) == name \in DOMAIN fs

feature_factory_get(name, fs) == IF name \in DOMAIN fs THEN fs[name] ELSE <<>>

get_hierarchy(name) == <<name>>

\* the loop over model.inputs: the first input that is neither a model nor
\* a feature raises ValueError; no call before it changes the factory
RECURSIVE collect_inputs(_, _, _, _, _)
collect_inputs(model_inputs, i, acc, ms, fs) ==
    IF i > Len(model_inputs) THEN [exc |-> "none", inputs |-> acc]
    ELSE IF has(model_inputs[i], ms)
    THEN collect_inputs(model_inputs, i + 1,
                        acc \o feature_factory_get(model_inputs[i], fs), ms, fs)
    ELSE IF feature_factory_has(model_inputs[i], fs)
    THEN collect_inputs(model_inputs, i + 1,
                        acc \o feature_factory_get(model_inputs[i], fs), ms, fs)
    ELSE [exc |-> "ValueError"]

\* init_model_wf: a workflow whose inputnode has the fields in1..in{numinputs};
\* id tells the workflow objects of one factory apart
init_model_wf(numinputs, model, id) ==
    [name |-> model.name, numinputs |-> numinputs, id |-> id]

\* the number of characters of a name: no name of the model is empty
NameLen(name) == IF name = "" THEN 0 ELSE 1

\* the loop of line 62, enumerate(input): input is the variable of the
\* loop over model.inputs, unbound when the model lists no input and else
\* the last name listed, whose characters it enumerates; a character has
\* no get_node (line 64).  No iteration reaches wf.connect.
connect_inputs(model, hierarchy, collected, cs) ==
    IF Len(model.inputs) = 0 THEN [exc |-> "UnboundLocalError", connections |-> cs]
    ELSE IF NameLen(model.inputs[Len(model.inputs)]) = 0
    THEN [exc |-> "none", connections |-> cs]
    ELSE [exc |-> "AttributeError", connections |-> cs]

\* mutant: the workflow is built and registered before the inputs are looked up
create_buildfirst(model, ms, fs, w, ns, cs) ==
    LET hierarchy0 == get_hierarchy("models_wf")
        c == collect_inputs(model.inputs, 1, <<>>, ms, fs)
        vwf == init_model_wf(IF c.exc = "none" THEN Len(c.inputs) ELSE 0, model,
                             Cardinality(ns) + 1)
        hierarchy == Append(hierarchy0, vwf)
        w2 == IF model.name \in DOMAIN w
              THEN [w EXCEPT ![model.name] = Append(@, hierarchy)]
              ELSE w @@ (model.name :> <<hierarchy>>)
    IN  IF c.exc # "none"
        THEN [exc |-> c.exc, wfs |-> w2, nodes |-> ns \cup {vwf}, connections |-> cs]
        ELSE LET loop == connect_inputs(model, hierarchy, c.inputs, cs)
             IN  [exc |-> loop.exc, wfs |-> w2, nodes |-> ns \cup {vwf},
                  connections |-> loop.connections, vwf |-> vwf,
                  hierarchy |-> hierarchy, inputs |-> c.inputs]

\* ModelFactory.create on a factory with the models ms, the features fs,
\* self.wfs = w, and the nodes ns and connections cs of models_wf
create(model, ms, fs, w, ns, cs) ==
    LET hierarchy0 == get_hierarchy("models_wf")
        c == collect_inputs(model.inputs, 1, <<>>, ms, fs)
    IN  IF c.exc # "none"
        THEN [exc |-> c.exc, wfs |-> w, nodes |-> ns, connections |-> cs]
        ELSE LET vwf == init_model_wf(Len(c.inputs), model, Cardinality(ns) + 1)
                 hierarchy == Append(hierarchy0, vwf)
                 w2 == IF model.name \in DOMAIN w
                       THEN [w EXCEPT ![model.name] = Append(@, hierarchy)]
                       ELSE w @@ (model.name :> <<hierarchy>>)
                 loop == connect_inputs(model, hierarchy, c.inputs, cs)
             IN  [exc |-> loop.exc, wfs |-> w2, nodes |-> ns \cup {vwf},
                  connections |-> loop.connections, vwf |-> vwf,
                  hierarchy |-> hierarchy, inputs |-> c.inputs]

(***************************************************************************)
(* SpecFactory: a factory over one or two models, each listing up to       *)
(* MaxInputs inputs out of a feature, the first model and a name that is   *)
(* neither, and a feature factory that holds up to MaxHier workflows of    *)
(* the feature.  setup has emptied self.wfs; create is called on any       *)
(* model, up to MaxCalls times.                                            *)
(***************************************************************************)
ModelNames == <<"m1", "m2">>

InputNames == {"feat", "m1", "nope"}

ModelLists ==
    UNION {{[i \in 1..len |-> [name |-> ModelNames[i], inputs |-> ins[i]]] :
                ins \in [1..len -> UNION {SeqsOf(InputNames, n) : n \in 0..MaxInputs}]} :
           len \in 1..Len(ModelNames)}

FeatureHierarchies(n) ==
    [j \in 1..n |-> <<"features_wf", [name |-> "feat", id |-> j]>>]

InitFactory ==
    /\ models \in ModelLists
    /\ features \in {[feat |-> FeatureHierarchies(n)] : n \in 0..MaxHier}
    /\ wfs = <<>>
    /\ nodes = {}
    /\ connections = {}
    /\ created = [op |-> "none"]
    /\ calls = 0
    /\ FitIdle
    /\ RehoIdle

Create ==
    /\ calls < MaxCalls
    /\ \E i \in 1..Len(models) :
          LET r == create(models[i], models, features, wfs, nodes, connections)
          IN  /\ created' = [op |-> "create", model |-> models[i],
                             before |-> [wfs |-> wfs, nodes |-> nodes,
                                         connections |-> connections],
                             res |-> r]
              /\ wfs' = r.wfs
              /\ nodes' = r.nodes
              /\ connections' = r.connections
    /\ calls' = calls + 1
    /\ UNCHANGED <<models, features, fitVars, rehoVars>>

NextFactory == Create

SpecFactory == InitFactory /\ [][NextFactory]_vars

(***************************************************************************)
(* compute_reho (pipeline/workflow/reho.py), the adjustment of the ranks   *)
(* of one voxel for ties: ties flags, for each of the n_t - 1 pairs of     *)
(* neighbours of the sorted series, whether the two values are equal.      *)
(* Positions are 0-based as in the code; a sequence element is read at     *)
(* its position plus one.                                                  *)
(***************************************************************************)
RECURSIVE flatnonzero(_, _)
flatnonzero(tt, j) ==
    IF j > Len(tt) THEN <<>>
    ELSE (IF tt[j] THEN <<j - 1>> ELSE <<>>) \o flatnonzero(tt, j + 1)

\* mutant: the sentinel is the position after the last pair
tieloc_of_adjacent(tt, nt) == Append(flatnonzero(tt, 1), nt - 1)

\* tieloc = np.append(np.flatnonzero(ties), n_t + 2)
tieloc_of(tt, nt) == Append(flatnonzero(tt, 1), nt + 2)

\* the columns the loop visits are those with a tie
TieVectors(nt) == {tt \in [1..(nt - 1) -> BOOLEAN] : \E j \in 1..(nt - 1) : tt[j]}

InitReho ==
    /\ n_t \in 2..MaxT
    /\ ties \in TieVectors(n_t)
    /\ tieloc = tieloc_of(ties, n_t)
    /\ tiecount = 0
    /\ tiestart = 0
    /\ ntied = 0
    /\ runs = <<>>
    /\ rpc = "outer"
    /\ FitIdle
    /\ FactoryIdle

\* while (tiecount < maxties - 1): tiestart = tieloc[tiecount]; ntied = 2
RehoOuter ==
    /\ rpc = "outer"
    /\ IF tiecount < Len(tieloc) - 1
       THEN /\ tiestart' = tieloc[tiecount + 1]
            /\ ntied' = 2
            /\ rpc' = "inner"
       ELSE /\ rpc' = "done"
            /\ UNCHANGED <<tiestart, ntied>>
    /\ UNCHANGED <<n_t, ties, tieloc, tiecount, runs, fitVars, factoryVars>>

\* while (tieloc[tiecount + 1] == (tieloc[tiecount] + 1)): tiecount += 1;
\* ntied += 1.  Reading tieloc past its last element raises IndexError.
RehoInner ==
    /\ rpc = "inner"
    /\ IF tiecount + 1 > Len(tieloc) - 1
       THEN /\ rpc' = "IndexError"
            /\ UNCHANGED <<tiecount, ntied>>
       ELSE IF tieloc[tiecount + 2] = tieloc[tiecount + 1] + 1
       THEN /\ tiecount' = tiecount + 1
            /\ ntied' = ntied + 1
            /\ rpc' = "inner"
       ELSE /\ rpc' = "update"
            /\ UNCHANGED <<tiecount, ntied>>
    /\ UNCHANGED <<n_t, ties, tieloc, tiestart, runs, fitVars, factoryVars>>

\* ranks[tiestart:tiestart + ntied] = the rounded-up mean; tiecount += 1
RehoUpdate ==
    /\ rpc = "update"
    /\ runs' = Append(runs, <<tiestart, ntied>>)
    /\ tiecount' = tiecount + 1
    /\ rpc' = "outer"
    /\ UNCHANGED <<n_t, ties, tieloc, tiestart, ntied, fitVars, factoryVars>>

NextReho == RehoOuter \/ RehoInner \/ RehoUpdate

SpecReho == InitReho /\ [][NextReho]_vars

\* the loops are sequential code: a step that can be taken is taken
SpecRehoFair == SpecReho /\ WF_vars(NextReho)

(***************************************************************************)
(* Properties.                                                             *)
(***************************************************************************)
DefaultCell(map_name) == IF map_name = "mask" THEN PyBool(FALSE) ELSE PyFloat("nan")

Table(i) == ContrastResults(voxel_results, cmatdict[i].name)

IsCall(op) == call.op = op

\* the input of the last voxel_calc is aligned with the design
Aligned == Len(call.y) = Len(z) /\ Len(call.s) = Len(z)

\* the rows of the last voxel_calc's input that listwise deletion keeps
KeptRows == {i \in 1..Len(call.y) : call.y[i] \in {"lo", "hi"} /\ isfinite(call.s[i])}

\* C1: for every contrast of the mapping, write_outputs returns a produced
\* volume in 'masks' and in 'zstats' at the contrast's index, over the cells
\* of the reference volume; for a contrast to which no voxel contributed
\* (empty voxel set, or every voxel failed) the mask volume is False
\* everywhere and the zstat volume NaN everywhere.
C1_GuaranteedColumns ==
    pc = "done" =>
        \A i \in 1..Len(cmatdict) :
            LET mf == Fname("mask", i, cmatdict[i].name)
                zf == Fname("zstat", i, cmatdict[i].name)
            IN  /\ output_files["masks"][i] = [t |-> "str", v |-> mf]
                /\ output_files["zstats"][i] = [t |-> "str", v |-> zf]
                /\ {mf, zf} \subseteq DOMAIN files
                /\ DOMAIN files[mf].data = 1..NVox
                /\ DOMAIN files[zf].data = 1..NVox
                /\ DOMAIN Table(i) = {} =>
                      \A c \in 1..NVox : /\ files[mf].data[c] = PyBool(FALSE)
                                         /\ files[zf].data[c] = PyFloat("nan")

\* every voxel of a full grid failed estimation, two contrasts, outputs written
C1_Witness ==
    /\ pc = "done"
    /\ Len(cmatdict) = 2
    /\ nvox = NVox
    /\ \A c \in 1..NVox : status[c] = "skip"
    /\ output_files["masks"][2].t = "str"

\* C2: in every record voxel_calc returns (t and F alike) mask is true iff
\* zstat is finite, and after write_outputs the mask and zstat volumes of
\* each contrast agree in the same way at every recorded voxel.
C2_MaskIffFinite ==
    /\ IsCall("voxel_calc") /\ call.res.kind = "result" =>
          \A name \in DOMAIN call.res.voxel_result :
              LET r == call.res.voxel_result[name][call.coordinate]
              IN  r.mask = PyBool(isfinite(r.zstat.v))
    /\ pc = "done" =>
          \A i \in 1..Len(cmatdict) : \A c \in DOMAIN Table(i) :
              files[Fname("mask", i, cmatdict[i].name)].data[c]
                = PyBool(isfinite(files[Fname("zstat", i, cmatdict[i].name)].data[c].v))

\* a recorded voxel with an infinite z score, and one with a finite one
C2_Witness ==
    /\ pc = "done"
    /\ \E i \in 1..Len(cmatdict) : \E c, d \in DOMAIN Table(i) :
          /\ files[Fname("zstat", i, cmatdict[i].name)].data[c] = PyFloat("pinf")
          /\ files[Fname("mask", i, cmatdict[i].name)].data[c] = PyBool(FALSE)
          /\ files[Fname("zstat", i, cmatdict[i].name)].data[d] = PyFloat("pos")
          /\ files[Fname("mask", i, cmatdict[i].name)].data[d] = PyBool(TRUE)

\* C3: for a one-row contrast whose varcope is NaN, zero or negative,
\* flame1_contrast raises nothing and returns tstat NaN, zstat NaN and
\* mask False.
C3_DegenerateVarcope ==
    ( /\ IsCall("flame1_contrast")
      /\ call.n = 1
      /\ call.ce.lstsq = "ok"
      /\ (isnan(call.ce.varcope) \/ call.ce.varcope = "zero" \/ lt0(call.ce.varcope)) )
    => /\ call.res.exc = "none"
       /\ call.res.r.tstat = PyFloat("nan")
       /\ call.res.r.zstat = PyFloat("nan")
       /\ call.res.r.mask = PyBool(FALSE)

\* a finite positive cope over a zero varcope, positive degrees of freedom
C3_Witness ==
    /\ IsCall("flame1_contrast")
    /\ call.n = 1
    /\ call.ce.lstsq = "ok"
    /\ call.ce.varcope = "zero"
    /\ call.ce.cope = "pos"
    /\ call.npts > call.nevs
    /\ call.res.r.tstat = PyFloat("nan")
    /\ call.res.r.mask = PyBool(FALSE)

\* C4: when the final GLS step raises a LinAlgError, voxel_calc returns the
\* skip value; a skipped voxel's coordinate is in no contrast's table and
\* every written volume keeps its default at that cell.
C4_FailedVoxelAbsent ==
    /\ ( /\ IsCall("voxel_calc")
         /\ call.env.gls = "LinAlgError"
         /\ ~(call.res.kind = "raise" /\ call.res.exc \in {"ValueError", "AssertionError"}) )
       => /\ call.res.kind = "skip"
          /\ status[call.coordinate] = "skip"
    /\ \A c \in 1..NVox : status[c] = "skip" =>
          /\ \A name \in DOMAIN voxel_results : c \notin DOMAIN voxel_results[name]
          /\ pc = "done" => \A f \in DOMAIN files : files[f].data[c] = DefaultCell(f[1])

\* the first voxel was skipped, the second recorded, outputs written
C4_Witness ==
    /\ pc = "done"
    /\ nvox = 2
    /\ status[1] = "skip"
    /\ status[2] = "result"
    /\ \E i \in 1..Len(cmatdict) : DOMAIN Table(i) = {2}

\* C5: within one voxel, a LinAlgError in a contrast's evaluation removes
\* that contrast's record only: voxel_calc still returns a result, which
\* holds, under the voxel's coordinate, the record of exactly the contrasts
\* whose evaluation did not raise, before and after the failing one.
C5_ContrastIsolation ==
    ( /\ IsCall("voxel_calc")
      /\ Aligned
      /\ \A i \in KeptRows : call.s[i] # "neg"
      /\ call.env.gls = "ok" )
    => /\ call.res.kind = "result"
       /\ DOMAIN call.res.voxel_result =
            {name \in CNames(cmatdict) : call.env.con[name].lstsq = "ok"}
       /\ \A name \in DOMAIN call.res.voxel_result :
            DOMAIN call.res.voxel_result[name] = {call.coordinate}

\* the first contrast raised, the second is stored
C5_Witness ==
    /\ IsCall("voxel_calc")
    /\ Len(cmatdict) = 2
    /\ call.env.con[cmatdict[1].name].lstsq = "LinAlgError"
    /\ call.res.kind = "result"
    /\ DOMAIN call.res.voxel_result = {cmatdict[2].name}

\* C6: for an input that is structurally valid (effect and variance aligned
\* with the design, no negative variance) voxel_calc returns a result or the
\* skip value and lets no exception escape, whatever the kernels do (a
\* singular fit at a candidate, a rejected candidate, a minimiser that ends
\* at a NaN or overflowing exponential, a failed final GLS step, a failed
\* contrast); the voxel loop is not aborted.
C6_NoEscape ==
    ( /\ IsCall("voxel_calc")
      /\ Aligned
      /\ \A i \in 1..Len(call.s) : call.s[i] # "neg" )
    => /\ call.res.kind \in {"skip", "result"}
       /\ pc # "raised"

\* a singular fit at a candidate beta was absorbed and the voxel has a result
C6_Witness ==
    /\ IsCall("voxel_calc")
    /\ Aligned
    /\ Len(z) = MaxSubj
    /\ \A i \in 1..Len(call.s) : call.s[i] # "neg"
    /\ call.env.cand.gls = "LinAlgError"
    /\ call.env.gls = "ok"
    /\ call.res.kind = "result"
    /\ pc = "fit"

\* C7 as stated: any negative variance value in a voxel's input makes
\* voxel_calc raise the precondition violation.
C7_AnyNegativeVarianceRaises ==
    ( /\ IsCall("voxel_calc")
      /\ Aligned
      /\ \E i \in 1..Len(call.s) : call.s[i] = "neg" )
    => /\ call.res.kind = "raise"
       /\ call.res.exc = "AssertionError"

\* C7 (amended): a negative variance in a row that listwise deletion keeps
\* (finite effect and variance) makes voxel_calc raise AssertionError,
\* before the between-subject variance is optimised: also when the GLS step
\* would raise, the voxel is not skipped and the run fails.
C7_KeptNegativeVarianceRaises ==
    ( /\ IsCall("voxel_calc")
      /\ Aligned
      /\ \E i \in KeptRows : call.s[i] = "neg" )
    => /\ call.res.kind = "raise"
       /\ call.res.exc = "AssertionError"
       /\ pc = "raised"

\* a kept negative variance under a final GLS step that would raise
C7_Witness ==
    /\ IsCall("voxel_calc")
    /\ Aligned
    /\ \E i \in KeptRows : call.s[i] = "neg"
    /\ call.env.gls = "LinAlgError"
    /\ call.res.kind = "raise"
    /\ pc = "raised"

\* C8 as stated: a structurally invalid input (effect or variance not
\* aligned with the design, or a design matrix without columns or without
\* rows) fails the run: voxel_calc raises, the voxel is not skipped and no
\* output is written.
C8_InvalidInputFailsRun ==
    ( /\ IsCall("voxel_calc")
      /\ (~Aligned \/ nevs = 0 \/ Len(z) = 0) )
    => /\ call.res.kind = "raise"
       /\ pc = "raised"

\* C9: flame1_contrast dispatches on the number of rows: one row gives a
\* record with exactly cope, var_cope, tdof, tstat, zstat and mask, more
\* rows give a record with exactly fstat, fdof1, fdof2, zstat and mask.
C9_Dispatch ==
    (IsCall("flame1_contrast") /\ call.res.exc = "none") =>
        /\ call.n = 1 =>
              DOMAIN call.res.r = {"cope", "var_cope", "tdof", "tstat", "zstat", "mask"}
        /\ call.n > 1 =>
              DOMAIN call.res.r = {"fstat", "fdof1", "fdof2", "zstat", "mask"}

\* a contrast of MaxRows > 1 rows has an F record
C9_Witness ==
    /\ IsCall("flame1_contrast")
    /\ call.n = MaxRows
    /\ call.n > 1
    /\ call.res.exc = "none"
    /\ "fstat" \in DOMAIN call.res.r
    /\ "tstat" \notin DOMAIN call.res.r

\* C10: the tdof of a one-row contrast's record is the number of rows of the
\* voxel whose effect and variance are both finite, minus the number of
\* design columns.
C10_TdofCountsKeptRows ==
    (IsCall("voxel_calc") /\ call.res.kind = "result") =>
        \A name \in DOMAIN call.res.voxel_result :
            CMat(cmatdict, name).n = 1 =>
                call.res.voxel_result[name][call.coordinate].tdof
                    = PyInt(Cardinality(KeptRows) - nevs)

\* three subjects, an intercept-only design, one missing effect: tdof 1
C10_Witness ==
    /\ IsCall("voxel_calc")
    /\ Len(z) = 3
    /\ nevs = 1
    /\ Cardinality({i \in 1..Len(call.y) : call.y[i] = "nan"}) = 1
    /\ \A i \in 1..Len(call.s) : call.s[i] = "pos"
    /\ call.res.kind = "result"
    /\ \E name \in DOMAIN call.res.voxel_result :
          /\ CMat(cmatdict, name).n = 1
          /\ call.res.voxel_result[name][call.coordinate].tdof = PyInt(1)

\* C11: the record of a contrast with n > 1 rows has fdof1 = n and fdof2 =
\* the number of rows of the voxel whose effect and variance are both
\* finite, minus the number of design columns.
C11_FdofCountsKeptRows ==
    (IsCall("voxel_calc") /\ call.res.kind = "result") =>
        \A name \in DOMAIN call.res.voxel_result :
            CMat(cmatdict, name).n > 1 =>
                LET r == call.res.voxel_result[name][call.coordinate]
                IN  /\ r.fdof1 = PyInt(CMat(cmatdict, name).n)
                    /\ r.fdof2 = PyInt(Cardinality(KeptRows) - nevs)

\* MaxSubj subjects of which one is deleted, one design column, a contrast
\* of MaxRows > 1 rows
C11_Witness ==
    /\ IsCall("voxel_calc")
    /\ Len(z) = MaxSubj
    /\ nevs = 1
    /\ Aligned
    /\ Cardinality(KeptRows) = MaxSubj - 1
    /\ call.res.kind = "result"
    /\ \E name \in DOMAIN call.res.voxel_result :
          /\ CMat(cmatdict, name).n = MaxRows
          /\ MaxRows > 1
          /\ call.res.voxel_result[name][call.coordinate].fdof1 = PyInt(MaxRows)
          /\ call.res.voxel_result[name][call.coordinate].fdof2 = PyInt(MaxSubj - 2)

\* the output-group key the claims give to the volume of a statistic
GroupKey(s) ==
    CASE s = "tdof" -> "tdof"
      [] s = "cope" -> "copes"
      [] s = "var_cope" -> "var_copes"
      [] s = "tstat" -> "tstats"
      [] s = "zstat" -> "zstats"
      [] s = "fstat" -> "fstats"
      [] s = "mask" -> "masks"
      [] s = "fdof1" -> "fdof1s"
      [] s = "fdof2" -> "fdof2s"

\* the statistics that some voxel recorded for the contrast at index i
Recorded(i) ==
    IF cmatdict[i].name \in DOMAIN voxel_results
    THEN UNION {DOMAIN voxel_results[cmatdict[i].name][c] :
                    c \in DOMAIN voxel_results[cmatdict[i].name]}
    ELSE {}

\* C12: the mapping write_outputs returns has the seven groups, each a list
\* with one slot per contrast in the order of the contrast mapping; the slot
\* (g, i) holds a produced volume of contrast i iff some voxel recorded a
\* statistic of group g for contrast i or g is masks or zstats, and the
\* not-produced marker False otherwise.
C12_SlotIffContributed ==
    pc = "done" =>
        /\ DOMAIN output_files =
              {"copes", "var_copes", "tdof", "zstats", "tstats", "fstats", "masks"}
        /\ \A g \in DOMAIN output_files :
              /\ DOMAIN output_files[g] = 1..Len(cmatdict)
              /\ \A i \in 1..Len(cmatdict) :
                    IF (\E s \in Recorded(i) : GroupKey(s) = g) \/ g \in {"masks", "zstats"}
                    THEN /\ output_files[g][i].t = "str"
                         /\ output_files[g][i].v \in DOMAIN files
                         /\ output_files[g][i].v[3] = cmatdict[i].name
                    ELSE output_files[g][i] = PyBool(FALSE)

\* a one-row contrast with a recorded voxel and a contrast of more rows
\* whose evaluation failed at every voxel
C12_Witness ==
    /\ pc = "done"
    /\ Len(cmatdict) = 2
    /\ cmatdict[1].n = 1
    /\ cmatdict[2].n > 1
    /\ DOMAIN Table(1) # {}
    /\ DOMAIN Table(2) = {}
    /\ output_files["copes"][1].t = "str"
    /\ output_files["copes"][2] = PyBool(FALSE)
    /\ output_files["fstats"][2] = PyBool(FALSE)
    /\ output_files["masks"][2].t = "str"

\* C13 as stated: the volume of every statistic s of the contrast at 0-based
\* position p with name c is tagged (s, p+1, c) and is stored at list
\* position p of the group 'tdof' (s = tdof) or s followed by 's'.
C13_EveryStatisticStored ==
    pc = "done" =>
        \A p \in 0..(Len(cmatdict) - 1) :
            \A s \in Recorded(p + 1) \cup {"mask", "zstat"} :
                LET tag == <<s, p + 1, cmatdict[p + 1].name>>
                IN  /\ tag \in DOMAIN files
                    /\ GroupKey(s) \in DOMAIN output_files
                    /\ output_files[GroupKey(s)][p + 1] = [t |-> "str", v |-> tag]

\* C13 (amended): every volume is tagged (s, p+1, c); it is stored at list
\* position p of its group when the group is one of the seven of the
\* mapping, which it is for every statistic but fdof1 and fdof2.
C13_DeclaredStatisticStored ==
    pc = "done" =>
        \A p \in 0..(Len(cmatdict) - 1) :
            \A s \in Recorded(p + 1) \cup {"mask", "zstat"} :
                LET tag == <<s, p + 1, cmatdict[p + 1].name>>
                IN  /\ tag \in DOMAIN files
                    /\ IF s \in {"fdof1", "fdof2"}
                       THEN GroupKey(s) \notin DOMAIN output_files
                       ELSE /\ GroupKey(s) \in DOMAIN output_files
                            /\ output_files[GroupKey(s)][p + 1] = [t |-> "str", v |-> tag]

\* the second contrast has a recorded one-row record: its tdof volume is
\* tagged (tdof, 2, c2) and stored in 'tdof' at the second slot
C13_Witness ==
    /\ pc = "done"
    /\ Len(cmatdict) = 2
    /\ "tdof" \in Recorded(2)
    /\ output_files["tdof"][2] = [t |-> "str", v |-> <<"tdof", 2, "c2">>]
    /\ output_files["copes"][2] = [t |-> "str", v |-> <<"cope", 2, "c2">>]

\* C14: every cell of every written volume holds the value recorded for the
\* volume's statistic and contrast at that coordinate, and the default
\* (False for mask, NaN otherwise) where the contrast has no record at the
\* coordinate.
C14_DefaultUnlessRecorded ==
    pc = "done" =>
        \A f \in DOMAIN files :
            \A c \in 1..NVox :
                files[f].data[c] =
                    IF c \in DOMAIN Table(f[2]) /\ f[1] \in DOMAIN Table(f[2])[c]
                    THEN Table(f[2])[c][f[1]]
                    ELSE DefaultCell(f[1])

\* the first voxel has a record for the second contrast only (the first
\* contrast was skipped there) and the second voxel was skipped
C14_Witness ==
    /\ pc = "done"
    /\ nvox = NVox
    /\ Len(cmatdict) = 2
    /\ DOMAIN Table(1) = {}
    /\ DOMAIN Table(2) = {1}
    /\ status[2] = "skip"
    /\ \E f \in DOMAIN files :
          /\ f[2] = 2
          /\ files[f].data[1] = PyFloat("pos")
          /\ files[f].data[2] = PyFloat("nan")

\* C15 as stated: the data type of an emitted volume is boolean for mask
\* and floating point for every other statistic.
C15_EmittedDtypeByStatistic ==
    pc = "done" =>
        \A f \in DOMAIN files :
            files[f].data_dtype = IF f[1] = "mask" THEN "bool" ELSE "float64"

\* C15 (amended): the array built for a volume is boolean for mask and
\* floating point for every other statistic; every volume, mask included,
\* is emitted with the header data type float64.
C15_ArrayDtypeByStatistic ==
    pc = "done" =>
        \A f \in DOMAIN files :
            /\ files[f].arr_dtype = IF f[1] = "mask" THEN "bool" ELSE "float64"
            /\ files[f].data_dtype = "float64"

\* a mask volume and a cope volume of the same contrast were written
C15_Witness ==
    /\ pc = "done"
    /\ \E i \in 1..Len(cmatdict) :
          /\ Fname("mask", i, cmatdict[i].name) \in DOMAIN files
          /\ Fname("cope", i, cmatdict[i].name) \in DOMAIN files
          /\ files[Fname("mask", i, cmatdict[i].name)].arr_dtype = "bool"
          /\ files[Fname("mask", i, cmatdict[i].name)].data_dtype = "float64"

\* C16: the data flame1_prepare_data hands on hold exactly the rows whose
\* effect and variance are both finite, in their order and the same rows in
\* effect, variance and design (equal row counts, the same subject at each
\* index); every design row is demeaned with the mean over exactly these
\* rows, so that a deleted row has no part in it.
C16_DeletionThenDemean ==
    (IsCall("voxel_calc") /\ Aligned) =>
        LET d == call.prepared
        IN  /\ d.exc = "none"
            /\ Len(d.y) = Cardinality(KeptRows)
            /\ Len(d.s) = Len(d.y)
            /\ Len(d.z) = Len(d.y)
            /\ {d.z[j].row : j \in 1..Len(d.z)} = KeptRows
            /\ \A j \in 1..Len(d.z) :
                  /\ d.y[j] = call.y[d.z[j].row]
                  /\ d.s[j] = call.s[d.z[j].row]
                  /\ d.z[j].mean_over = KeptRows
                  /\ \A h \in 1..Len(d.z) : h < j => d.z[h].row < d.z[j].row

\* MaxSubj subjects: one with an infinite effect, one with a NaN variance,
\* one kept
C16_Witness ==
    /\ IsCall("voxel_calc")
    /\ Aligned
    /\ Len(z) = MaxSubj
    /\ \E i \in 1..Len(call.y) : call.y[i] = "inf" /\ call.s[i] = "pos"
    /\ \E i \in 1..Len(call.y) : call.y[i] = "hi" /\ call.s[i] = "nan"
    /\ Cardinality(KeptRows) = MaxSubj - 2
    /\ Len(call.prepared.z) = MaxSubj - 2

C19_NonFiniteGivesNaN ==
    ( /\ IsCall("flame1_contrast")
      /\ call.n = 1
      /\ call.res.exc = "none"
      /\ (~isfinite(call.res.r.cope.v) \/ ~isfinite(call.res.r.var_cope.v)) )
    => call.res.r.tstat = PyFloat("nan")

\* the tables of the voxels 1..n fitted and merged in the order of their
\* coordinates
RECURSIVE SequentialTables(_)
SequentialTables(n) ==
    IF n = 0 THEN <<>>
    ELSE LET res == voxel_calc(n, inputs[n][1].y, z, inputs[n][1].s, nevs,
                               cmatdict, inputs[n][2])
         IN  IF res.kind = "result"
             THEN Merge(SequentialTables(n - 1), res.voxel_result)
             ELSE SequentialTables(n - 1)

\* C20: whatever the order in which the voxels are fitted and their results
\* merged, once every voxel is done the per-contrast tables are those of
\* the sequential run, and so are the mapping and the volumes that
\* write_outputs produces.
C20_OrderIndependent ==
    /\ (pc \in {"fit", "done"} /\ k > nvox) =>
          voxel_results = SequentialTables(nvox)
    /\ pc = "done" =>
          /\ output_files = write_outputs(cmatdict, SequentialTables(nvox)).output_files
          /\ files = write_outputs(cmatdict, SequentialTables(nvox)).files

\* the last voxel was fitted first; two voxels differ in their records
C20_Witness ==
    /\ pc = "done"
    /\ nvox = NVox
    /\ call.coordinate = 1
    /\ Len(cmatdict) = 2
    /\ status[1] = "result"
    /\ status[nvox] = "result"
    /\ \E i \in 1..Len(cmatdict) :
          /\ {1, nvox} \subseteq DOMAIN Table(i)
          /\ Table(i)[1] # Table(i)[nvox]

C23_SentinelEnergy ==
    /\ IsCall("marg_posterior_energy") =>
          /\ call.res.exc = "none"
          /\ (lt0(call.ex) \/ isclose0(call.ex)) =>
                (call.res.val = "1e32" /\ call.res.gls_calls = 0)
          /\ (~(lt0(call.ex) \/ isclose0(call.ex)) /\ call.gls = "LinAlgError") =>
                (call.res.val = "1e32" /\ call.res.gls_calls = 1)
          /\ (~(lt0(call.ex) \/ isclose0(call.ex)) /\ call.gls = "ok") =>
                call.res.val = "energy"
    /\ IsCall("solveforbeta") => call.res.exc = "none"

\* a positive candidate whose GLS step raises, inside solveforbeta
C23_Witness ==
    /\ IsCall("solveforbeta")
    /\ call.ex = "pos"
    /\ call.gls = "LinAlgError"
    /\ call.res.exc = "none"

C25_SlotAssignedOnce ==
    pc = "done" =>
        /\ \A a, b \in assigned :
              (a.output_name = b.output_name /\ a.i = b.i) => a = b
        /\ \A a \in assigned : a.i = a.contrast
        /\ \A g \in DOMAIN output_files :
              \A i \in 1..Len(cmatdict) :
                 LET as == {a \in assigned : a.output_name = g /\ a.i = i}
                 IN  IF as = {} THEN output_files[g][i] = PyBool(FALSE)
                     ELSE \A a \in as :
                            output_files[g][i] =
                               [t |-> "str", v |-> <<a.map_name, i, cmatdict[i].name>>]

\* two contrasts with recorded voxels: the slots of both are assigned
C25_Witness ==
    /\ pc = "done"
    /\ Len(cmatdict) = 2
    /\ \E a, b \in assigned :
          /\ a.i = 1 /\ b.i = 2
          /\ a.output_name = "tstats"
          /\ b.output_name = "zstats"
    /\ Cardinality({a \in assigned : a.i = 1}) >= 6

(***************************************************************************)
(* C26: the mapping write_outputs returns has exactly the seven keys       *)
(* copes, var_copes, tdof, zstats, tstats, fstats and masks; fdof1 and     *)
(* fdof2 of an F-contrast add no key and are assigned to no slot, although *)
(* their volumes are written.                                              *)
(***************************************************************************)
C26_SevenKeys ==
    pc = "done" =>
        /\ DOMAIN output_files =
              {"copes", "var_copes", "tdof", "zstats", "tstats", "fstats", "masks"}
        /\ \A i \in 1..Len(cmatdict) :
              \A s \in Recorded(i) \cap {"fdof1", "fdof2"} :
                 /\ <<s, i, cmatdict[i].name>> \in DOMAIN files
                 /\ \A a \in assigned : a.map_name # s
                 /\ \A g \in DOMAIN output_files :
                       \A j \in 1..Len(cmatdict) :
                          output_files[g][j].t = "str" => output_files[g][j].v[1] # s

\* an F-contrast with a recorded voxel: its fdof1 volume is written
C26_Witness ==
    /\ pc = "done"
    /\ \E i \in 1..Len(cmatdict) :
          /\ cmatdict[i].n > 1
          /\ "fdof1" \in Recorded(i)
          /\ <<"fdof1", i, cmatdict[i].name>> \in DOMAIN files
          /\ output_files["fstats"][i].t = "str"

(***************************************************************************)
(* C27: when voxel_calc succeeds, for every contrast of cmatdict, whatever *)
(* its number of rows (zero included), what it stores is nothing (the      *)
(* evaluation raised LinAlgError) or a statistic record with zstat and     *)
(* mask, stored under the voxel's own coordinate and no other.             *)
(***************************************************************************)
C27_StoredIsRecord ==
    (IsCall("voxel_calc") /\ call.res.kind = "result") =>
        /\ DOMAIN call.res.voxel_result \subseteq CNames(cmatdict)
        /\ \A name \in DOMAIN call.res.voxel_result :
              /\ DOMAIN call.res.voxel_result[name] = {call.coordinate}
              /\ {"zstat", "mask"} \subseteq
                    DOMAIN call.res.voxel_result[name][call.coordinate]

\* an input that is neither the name of a model nor that of a feature
UnknownInput(name) ==
    /\ \A i \in 1..Len(models) : models[i].name # name
    /\ name \notin DOMAIN features

C29_InputsConnected ==
    (/\ created.op = "create"
     /\ \A i \in 1..Len(created.model.inputs) : ~UnknownInput(created.model.inputs[i]))
    => /\ created.res.exc = "none"
       /\ created.res.vwf.numinputs = Len(created.res.inputs)
       /\ \A kk \in 1..created.res.vwf.numinputs :
             {c \in connections : c.dst = created.res.hierarchy /\ c.field = kk}
                = {[src |-> created.res.inputs[kk], srcfield |-> "resultdicts",
                    dst |-> created.res.hierarchy, field |-> kk]}

\* the maximal runs of consecutive ties: <<first position, number of tied
\* ranks>>, a run of r flags tying r + 1 ranks
MaximalRuns ==
    {<<a - 1, b - a + 2>> : <<a, b>> \in
        {ab \in (1..Len(ties)) \X (1..Len(ties)) :
            /\ ab[1] <= ab[2]
            /\ \A j \in ab[1]..ab[2] : ties[j]
            /\ ab[1] = 1 \/ ~ties[ab[1] - 1]
            /\ ab[2] = Len(ties) \/ ~ties[ab[2] + 1]}}

\* tieloc is never read past its last element, and at the end every
\* maximal run was processed once, within the n_t ranks
RehoSafe ==
    /\ rpc # "IndexError"
    /\ rpc \in {"inner", "update"} => tiecount + 1 <= Len(tieloc) - 1
    /\ \A j \in 1..Len(runs) : runs[j][1] + runs[j][2] <= n_t
    /\ \A i, j \in 1..Len(runs) : runs[i] = runs[j] => i = j
    /\ {runs[j] : j \in 1..Len(runs)} \subseteq MaximalRuns
    /\ rpc = "done" => {runs[j] : j \in 1..Len(runs)} = MaximalRuns

(***************************************************************************)
(* C30: in the tie adjustment of compute_reho, for every tie-flag vector   *)
(* of length n_t - 1, the nested while loops terminate, never read tieloc  *)
(* past its last element (the sentinel n_t + 2 stops the inner scan), and  *)
(* process each maximal run of consecutive ties exactly once.              *)
(***************************************************************************)
C30_TieLoop == []RehoSafe /\ <>(rpc = "done")

\* two runs, the second of two flags ending at the last pair: the inner
\* scan stopped at the sentinel
C30_Witness ==
    /\ rpc = "done"
    /\ Len(runs) = 2
    /\ runs[2][2] = 3
    /\ runs[2][1] + 3 = n_t
    /\ tieloc[Len(tieloc)] = n_t + 2

=============================================================================
